---- MODULE Spec2Model ----
(***************************************************************************)
(* Data-access layer of the journaling backend (src/app/crud.py): users,   *)
(* journal entries, AI analysis fields, mood history, theme frequency and  *)
(* articles, over one SQLAlchemy session.                                   *)
(*                                                                         *)
(* users, entries and articles hold the committed (durable) rows; pending  *)
(* holds the Article objects added to the session and not yet flushed.     *)
(* Every call runs to completion (spec section 5), so each function is one *)
(* action; `last` records the call that was just made and what it returned.*)
(* Queries read the committed rows: objects that are only pending in the   *)
(* session have no primary key yet and are not returned by them.           *)
(***************************************************************************)
EXTENDS Integers, Sequences, FiniteSets, TLC

VARIABLES users, entries, articles, pending, nextEntryId, nextArticleId, now, last

vars == <<users, entries, articles, pending, nextEntryId, nextArticleId, now, last>>

(***************************************************************************)
(* Bounds of the model.                                                    *)
(***************************************************************************)
MaxEntries == 2        \* journal entries ever inserted in Spec
MaxArticles == 2       \* Article objects ever created in Spec
MaxBatch == 2          \* length of a create_articles_bulk list
MaxTime == 1           \* last clock reading in Spec
MaxDays == 1           \* largest `days` argument
MaxSkip == 3           \* largest `skip` argument
MaxLimit == 2          \* largest `limit` argument
QEntries == 3          \* journal entries of a store the query specifications start from
QTime == 2             \* clock reading of the query specifications

(***************************************************************************)
(* Values.  Optional[...] is a sequence of length 0 or 1.                  *)
(***************************************************************************)
None == <<>>
Some(x) == <<x>>

UserIds == {"A", "B"}

Min(a, b) == IF a <= b THEN a ELSE b
Max(a, b) == IF a >= b THEN a ELSE b

Range(s) == {s[i] : i \in 1..Len(s)}

\* key_themes column: NULL, a native list, or a str holding JSON text
\* (a str is a sequence of tokens: "[", "]", "," or a string literal).
NullThemes == [kind |-> "null", val |-> <<>>]
ListThemes(l) == [kind |-> "list", val |-> l]
StrThemes(text) == [kind |-> "str", val |-> text]

\* schemas.AIAnalysisResult values handed to update_journal_entry_with_ai
AIResults ==
    { [sentiment_score |-> "0.8", sentiment_label |-> "positive",
       key_themes |-> <<"a", "b">>, suggested_strategies |-> "walk"],
      [sentiment_score |-> "-0.5", sentiment_label |-> "negative",
       key_themes |-> <<"a">>, suggested_strategies |-> "rest"] }

\* the optional mood of an entry
Moods == {None, Some("calm"), Some("low")}

\* the record of one call of the layer
Call(op, user_id, id, args, ret, raised, committed) ==
    [op |-> op, user_id |-> user_id, id |-> id, args |-> args, ret |-> ret,
     raised |-> raised, committed |-> committed]

(***************************************************************************)
(* The session.                                                            *)
(***************************************************************************)
\* the rows a flush inserts for the pending Article objects `new`: the store
\* assigns the ids, and generated_at defaults to the insert time when the
\* object carries none
flushed(new) ==
    [i \in 1..Len(new) |->
        [new[i] EXCEPT !.id = nextArticleId + i - 1,
                       !.generated_at = IF new[i].generated_at = None
                                        THEN Some(now) ELSE new[i].generated_at]]

inserted(new) ==
    [id \in DOMAIN articles \cup {nextArticleId + i - 1 : i \in 1..Len(new)} |->
        IF id \in DOMAIN articles THEN articles[id]
        ELSE flushed(new)[id - nextArticleId + 1]]

\* db.commit() with `new` the pending objects and `deleted` the articles the
\* call marked for deletion: one transaction; on failure it is rolled back
\* and the pending objects are expunged
commit(new, deleted, ok) ==
    /\ articles' = IF ok
                   THEN [id \in DOMAIN inserted(new) \ deleted |-> inserted(new)[id]]
                   ELSE articles
    /\ nextArticleId' = IF ok THEN nextArticleId + Len(new) ELSE nextArticleId
    /\ pending' = <<>>

\* db.rollback(): the pending objects are expunged, committed rows stay
rollback ==
    /\ pending' = <<>>
    /\ UNCHANGED <<articles, nextArticleId>>

(***************************************************************************)
(* User CRUD                                                               *)
(***************************************************************************)
get_user(us, user_id) ==
    IF user_id \in us THEN Some([id |-> user_id]) ELSE None

create_user(user_id, outcome) ==
    /\ user_id \notin users
    /\ commit(pending, {}, outcome # "commit_error")
    /\ users' = IF outcome # "commit_error" THEN users \cup {user_id} ELSE users
    /\ last' = Call("create_user", user_id, 0, <<>>,
                    IF outcome = "ok" THEN Some([id |-> user_id]) ELSE None,
                    outcome # "ok", outcome # "commit_error")
    /\ UNCHANGED <<entries, nextEntryId, now>>

\* the store's cascade: the journal entries of a deleted user go with it
cascade(es, user_id) ==
    [id \in {i \in DOMAIN es : es[i].user_id # user_id} |-> es[id]]

\* delete_user without the db.commit() of line 35
delete_user_uncommitted(user_id, ok) ==
    /\ last' = Call("delete_user", user_id, 0, <<>>, get_user(users, user_id), FALSE, FALSE)
    /\ UNCHANGED <<users, entries, articles, pending, nextEntryId, nextArticleId, now>>

delete_user(user_id, ok) ==
    LET db_user == get_user(users, user_id) IN
    IF db_user # None
    THEN /\ commit(pending, {}, ok)
         /\ users' = IF ok THEN users \ {user_id} ELSE users
         /\ entries' = IF ok THEN cascade(entries, user_id) ELSE entries
         /\ last' = Call("delete_user", user_id, 0, <<>>,
                         IF ok THEN db_user ELSE None, ~ok, ok)
         /\ UNCHANGED <<nextEntryId, now>>
    ELSE /\ last' = Call("delete_user", user_id, 0, <<>>, None, FALSE, FALSE)
         /\ UNCHANGED <<users, entries, articles, pending, nextEntryId, nextArticleId, now>>

(***************************************************************************)
(* Journal entry CRUD                                                      *)
(***************************************************************************)
\* the lookup by id alone, without the ownership condition of line 46
get_journal_entry_unscoped(es, entry_id, user_id) ==
    IF entry_id \in DOMAIN es THEN Some(es[entry_id]) ELSE None

get_journal_entry(es, entry_id, user_id) ==
    IF entry_id \in DOMAIN es /\ es[entry_id].user_id = user_id
    THEN Some(es[entry_id]) ELSE None

GetJournalEntry(entry_id, user_id) ==
    /\ last' = Call("get_journal_entry", user_id, entry_id, <<>>,
                    get_journal_entry(entries, entry_id, user_id), FALSE, FALSE)
    /\ UNCHANGED <<users, entries, articles, pending, nextEntryId, nextArticleId, now>>

create_journal_entry(mood, user_id, outcome) ==
    LET db_entry == [id |-> nextEntryId, user_id |-> user_id, created_at |-> now,
                     mood |-> mood, sentiment_score |-> None,
                     sentiment_label |-> None, key_themes |-> NullThemes,
                     suggested_strategies |-> None,
                     ai_analysis_completed_at |-> None] IN
    /\ nextEntryId <= MaxEntries
    /\ user_id \in users
    /\ commit(pending, {}, outcome # "commit_error")
    /\ entries' = IF outcome # "commit_error"
                  THEN [id \in DOMAIN entries \cup {nextEntryId} |->
                            IF id = nextEntryId THEN db_entry ELSE entries[id]]
                  ELSE entries
    /\ nextEntryId' = IF outcome # "commit_error" THEN nextEntryId + 1 ELSE nextEntryId
    /\ last' = Call("create_journal_entry", user_id, nextEntryId, <<>>,
                    IF outcome = "ok" THEN Some(db_entry) ELSE None,
                    outcome # "ok", outcome # "commit_error")
    /\ UNCHANGED <<users, now>>

\* the assignments without the one of line 77
with_ai_partial(e, ai_results) ==
    [e EXCEPT !.sentiment_score = Some(ai_results.sentiment_score),
              !.key_themes = ListThemes(ai_results.key_themes),
              !.suggested_strategies = Some(ai_results.suggested_strategies),
              !.ai_analysis_completed_at = Some(now)]

\* lines 76-80: the five assignments on the loaded entry
with_ai(e, ai_results) ==
    [e EXCEPT !.sentiment_score = Some(ai_results.sentiment_score),
              !.sentiment_label = Some(ai_results.sentiment_label),
              !.key_themes = ListThemes(ai_results.key_themes),
              !.suggested_strategies = Some(ai_results.suggested_strategies),
              !.ai_analysis_completed_at = Some(now)]

update_journal_entry_with_ai(entry_id, user_id, ai_results, outcome) ==
    LET db_entry == get_journal_entry(entries, entry_id, user_id) IN
    IF db_entry # None
    THEN LET e == with_ai(db_entry[1], ai_results) IN
         /\ commit(pending, {}, outcome # "commit_error")
         /\ entries' = IF outcome # "commit_error"
                       THEN [entries EXCEPT ![entry_id] = e] ELSE entries
         /\ last' = Call("update_journal_entry_with_ai", user_id, entry_id, <<>>,
                         IF outcome = "ok" THEN Some(e) ELSE None,
                         outcome # "ok", outcome # "commit_error")
         /\ UNCHANGED <<users, nextEntryId, now>>
    ELSE /\ last' = Call("update_journal_entry_with_ai", user_id, entry_id, <<>>,
                         db_entry, FALSE, FALSE)
         /\ UNCHANGED <<users, entries, articles, pending, nextEntryId, nextArticleId, now>>

delete_journal_entry(entry_id, user_id, ok) ==
    LET db_entry == get_journal_entry(entries, entry_id, user_id) IN
    IF db_entry # None
    THEN /\ commit(pending, {}, ok)
         /\ entries' = IF ok THEN [id \in DOMAIN entries \ {entry_id} |-> entries[id]]
                       ELSE entries
         /\ last' = Call("delete_journal_entry", user_id, entry_id, <<>>,
                         IF ok THEN db_entry ELSE None, ~ok, ok)
         /\ UNCHANGED <<users, nextEntryId, now>>
    ELSE /\ last' = Call("delete_journal_entry", user_id, entry_id, <<>>, None, FALSE, FALSE)
         /\ UNCHANGED <<users, entries, articles, pending, nextEntryId, nextArticleId, now>>

(***************************************************************************)
(* Insights                                                                *)
(***************************************************************************)
rows(t) == {t[id] : id \in DOMAIN t}

\* every order in which the store may hand back a set of rows
RECURSIVE Perms(_)
Perms(S) ==
    IF S = {} THEN {<<>>}
    ELSE UNION {{<<x>> \o s : s \in Perms(S \ {x})} : x \in S}

order_by_created_at(S) ==
    {s \in Perms(S) : \A i, j \in 1..Len(s) : i < j => s[i].created_at <= s[j].created_at}

order_by_desc_created_at(S) ==
    {s \in Perms(S) : \A i, j \in 1..Len(s) : i < j => s[i].created_at >= s[j].created_at}

order_by_desc_generated_at(S) ==
    {s \in Perms(S) : \A i, j \in 1..Len(s) : i < j => s[i].generated_at[1] >= s[j].generated_at[1]}

offset(s, skip) == SubSeq(s, skip + 1, Len(s))

limit_(s, limit) == SubSeq(s, 1, Min(limit, Len(s)))

\* the window with LIMIT applied before OFFSET
get_user_journal_entries_limit_first(es, user_id, skip, limit) ==
    {offset(limit_(s, limit), skip) :
        s \in order_by_desc_created_at({e \in rows(es) : e.user_id = user_id})}

\* the possible results of get_user_journal_entries
get_user_journal_entries(es, user_id, skip, limit) ==
    {limit_(offset(s, skip), limit) :
        s \in order_by_desc_created_at({e \in rows(es) : e.user_id = user_id})}

GetUserJournalEntries(user_id, skip, limit) ==
    /\ \E r \in get_user_journal_entries(entries, user_id, skip, limit) :
          last' = Call("get_user_journal_entries", user_id, 0, <<skip, limit>>, r, FALSE, FALSE)
    /\ UNCHANGED <<users, entries, articles, pending, nextEntryId, nextArticleId, now>>

\* the history with > for the >= of line 105
get_mood_history_exclusive(es, user_id, days, t) ==
    LET start_date == t - days IN
    {[i \in 1..Len(s) |-> [date |-> s[i].created_at, mood |-> s[i].mood[1]]] :
        s \in order_by_created_at({e \in rows(es) : /\ e.user_id = user_id
                                                     /\ e.created_at > start_date
                                                     /\ e.mood # None})}

\* the possible results of get_mood_history at time t
get_mood_history(es, user_id, days, t) ==
    LET start_date == t - days IN
    {[i \in 1..Len(s) |-> [date |-> s[i].created_at, mood |-> s[i].mood[1]]] :
        s \in order_by_created_at({e \in rows(es) : /\ e.user_id = user_id
                                                     /\ e.created_at >= start_date
                                                     /\ e.mood # None})}

GetMoodHistory(user_id, days) ==
    /\ \E r \in get_mood_history(entries, user_id, days, now) :
          last' = Call("get_mood_history", user_id, 0, <<days>>, r, FALSE, FALSE)
    /\ UNCHANGED <<users, entries, articles, pending, nextEntryId, nextArticleId, now>>

\* json.dumps of a list of strings, as the tokens of the text
RECURSIVE join(_)
join(l) ==
    IF l = <<>> THEN <<>>
    ELSE IF Len(l) = 1 THEN l
    ELSE <<Head(l), ",">> \o join(Tail(l))

json_dumps(l) == <<"[">> \o join(l) \o <<"]">>

Structural == {"[", "]", ","}

\* json.loads of a text holding a string literal or a flat list of them;
\* ok is FALSE where json.JSONDecodeError is raised
json_loads(text) ==
    LET n == Len(text)
        inner == SubSeq(text, 2, n - 1)
        m == Len(inner) IN
    IF n = 1 /\ text[1] \notin Structural
    THEN [ok |-> TRUE, is_list |-> FALSE, val |-> text]
    ELSE IF /\ n >= 2 /\ text[1] = "[" /\ text[n] = "]"
            /\ (m = 0 \/ m % 2 = 1)
            /\ \A i \in 1..m : IF i % 2 = 1 THEN inner[i] \notin Structural
                                            ELSE inner[i] = ","
    THEN [ok |-> TRUE, is_list |-> TRUE,
          val |-> [i \in 1..((m + 1) \div 2) |-> inner[2 * i - 1]]]
    ELSE [ok |-> FALSE, is_list |-> FALSE, val |-> <<>>]

\* collections.Counter, as its (theme, count) items in insertion order.
\* Counter.update(l): each element of l adds one to its count; an element
\* seen for the first time is inserted after the items already there
counter_update(c, l) ==
    LET old == {c[i].theme : i \in 1..Len(c)}
        elems == Range(l)
        once == Cardinality(elems) = Len(l)
        fresh == {i \in 1..Len(l) :
                     l[i] \notin old /\ (once \/ \A j \in 1..(i - 1) : l[j] # l[i])}
        added == SelectSeq([i \in 1..Len(l) |-> [at |-> i, theme |-> l[i]]],
                           LAMBDA x : x.at \in fresh)
        occ(x) == IF x \notin elems THEN 0
                  ELSE IF once THEN 1
                  ELSE Len(SelectSeq(l, LAMBDA y : y = x))
    IN [i \in 1..Len(c) |-> [c[i] EXCEPT !.count = @ + occ(c[i].theme)]]
       \o [n \in 1..Len(added) |-> [theme |-> added[n].theme, count |-> occ(added[n].theme)]]

\* sorted(items, key=count, reverse=True): stable, so equal counts keep
\* their insertion order
sorted_by_count(c) ==
    LET RECURSIVE from(_)
        from(n) == IF n = 0 THEN <<>>
                   ELSE SelectSeq(c, LAMBDA x : x.count = n) \o from(n - 1)
        counts == {0} \cup {c[i].count : i \in 1..Len(c)}
    IN from(CHOOSE n \in counts : \A m \in counts : m <= n)

TopN == 50

\* the first n items as inserted, not sorted
most_common_unsorted(c, n) == SubSeq(c, 1, Min(n, Len(c)))

most_common(c, n) == SubSeq(sorted_by_count(c), 1, Min(n, Len(c)))

\* lines 129-141: the loop over the fetched key_themes values
RECURSIVE tally(_, _)
tally(theme_counts, results) ==
    IF results = <<>> THEN theme_counts
    ELSE LET theme_list == Head(results)
             parsed_list == json_loads(theme_list.val)
             counted ==
                 IF theme_list.kind = "list"
                 THEN counter_update(theme_counts, theme_list.val)
                 ELSE IF theme_list.kind = "str" /\ parsed_list.ok /\ parsed_list.is_list
                 THEN counter_update(theme_counts, parsed_list.val)
                 ELSE theme_counts
         IN tally(counted, Tail(results))

\* the possible results of get_theme_frequency at time t: the query has no
\* ORDER BY, so the rows come in any order
get_theme_frequency(es, user_id, days, t) ==
    LET start_date == t - days IN
    {most_common(tally(<<>>, results), TopN) :
        results \in {[i \in 1..Len(s) |-> s[i].key_themes] :
                        s \in Perms({e \in rows(es) : /\ e.user_id = user_id
                                                      /\ e.created_at >= start_date
                                                      /\ e.key_themes.kind # "null"})}}

GetThemeFrequency(user_id, days) ==
    /\ \E r \in get_theme_frequency(entries, user_id, days, now) :
          last' = Call("get_theme_frequency", user_id, 0, <<days>>, r, FALSE, FALSE)
    /\ UNCHANGED <<users, entries, articles, pending, nextEntryId, nextArticleId, now>>

(***************************************************************************)
(* Articles                                                                *)
(***************************************************************************)
\* create_article with the db.commit() of line 168 left in
create_article_committing(user_id) ==
    LET db_article == [id |-> 0, user_id |-> user_id, generated_at |-> None] IN
    /\ nextArticleId + Len(pending) <= MaxArticles
    /\ user_id \in users
    /\ commit(Append(pending, db_article), {}, TRUE)
    /\ last' = Call("create_article", user_id, 0, <<>>, Some(db_article), FALSE, FALSE)
    /\ UNCHANGED <<users, entries, nextEntryId, now>>

create_article(user_id) ==
    LET db_article == [id |-> 0, user_id |-> user_id, generated_at |-> None] IN
    /\ nextArticleId + Len(pending) <= MaxArticles
    /\ user_id \in users
    /\ pending' = Append(pending, db_article)
    /\ last' = Call("create_article", user_id, 0, <<>>, Some(db_article), FALSE, FALSE)
    /\ UNCHANGED <<users, entries, articles, nextEntryId, nextArticleId, now>>

\* the lookup by id alone, without the ownership condition of line 176
get_article_unscoped(arts, article_id, user_id) ==
    IF article_id \in DOMAIN arts THEN Some(arts[article_id]) ELSE None

get_article(arts, article_id, user_id) ==
    IF article_id \in DOMAIN arts /\ arts[article_id].user_id = user_id
    THEN Some(arts[article_id]) ELSE None

GetArticle(article_id, user_id) ==
    /\ last' = Call("get_article", user_id, article_id, <<>>,
                    get_article(articles, article_id, user_id), FALSE, FALSE)
    /\ UNCHANGED <<users, entries, articles, pending, nextEntryId, nextArticleId, now>>

\* the possible results of get_user_articles
get_user_articles(arts, user_id, skip, limit) ==
    {limit_(offset(s, skip), limit) :
        s \in order_by_desc_generated_at({a \in rows(arts) : a.user_id = user_id})}

delete_article(article_id, user_id, ok) ==
    LET db_article == get_article(articles, article_id, user_id) IN
    IF db_article # None
    THEN /\ commit(pending, {article_id}, ok)
         /\ last' = Call("delete_article", user_id, article_id, <<>>,
                         IF ok THEN db_article ELSE None, ~ok, ok)
         /\ UNCHANGED <<users, entries, nextEntryId, now>>
    ELSE /\ last' = Call("delete_article", user_id, article_id, <<>>, None, FALSE, FALSE)
         /\ UNCHANGED <<users, entries, articles, pending, nextEntryId, nextArticleId, now>>

BulkOutcomes == {"ok", "add_error", "commit_error", "refresh_error"}

\* articles_to_create is the list of the items' user ids
create_articles_bulk(articles_to_create, outcome) ==
    IF articles_to_create = <<>>
    THEN /\ last' = Call("create_articles_bulk", "", 0, <<0>>, <<>>, FALSE, FALSE)
         /\ UNCHANGED <<users, entries, articles, pending, nextEntryId, nextArticleId, now>>
    ELSE LET n == Len(articles_to_create)
             db_models == [i \in 1..n |-> [id |-> 0, user_id |-> articles_to_create[i],
                                           generated_at |-> Some(now)]]
             new == pending \o db_models
             committed == outcome \in {"ok", "refresh_error"} IN
         /\ nextArticleId + Len(pending) + n - 1 <= MaxArticles
         /\ Range(articles_to_create) \subseteq users
         /\ IF outcome = "add_error" THEN rollback ELSE commit(new, {}, committed)
         /\ last' = Call("create_articles_bulk", "", 0, <<n>>,
                         IF outcome = "ok"
                         THEN SubSeq(flushed(new), Len(pending) + 1, Len(new))
                         ELSE <<>>,
                         outcome # "ok", committed)
         /\ UNCHANGED <<users, entries, nextEntryId, now>>

(***************************************************************************)
(* The caller, who owns the session, and the clock                         *)
(***************************************************************************)
caller_commit(ok) ==
    /\ pending # <<>>
    /\ commit(pending, {}, ok)
    /\ last' = Call("commit", "", 0, <<>>, <<>>, ~ok, ok)
    /\ UNCHANGED <<users, entries, nextEntryId, now>>

caller_rollback ==
    /\ pending # <<>>
    /\ rollback
    /\ last' = Call("rollback", "", 0, <<>>, <<>>, FALSE, FALSE)
    /\ UNCHANGED <<users, entries, nextEntryId, now>>

Tick ==
    /\ now < MaxTime
    /\ now' = now + 1
    /\ last' = Call("tick", "", 0, <<>>, <<>>, FALSE, FALSE)
    /\ UNCHANGED <<users, entries, articles, pending, nextEntryId, nextArticleId>>

(***************************************************************************)
(* The layer over an empty database                                        *)
(***************************************************************************)
Outcomes == {"ok", "commit_error", "refresh_error"}

EntryIds == 1..MaxEntries
ArticleIds == 1..MaxArticles

Batches == UNION {[1..n -> UserIds] : n \in 0..MaxBatch}

Init ==
    /\ users = {}
    /\ entries = <<>>
    /\ articles = <<>>
    /\ pending = <<>>
    /\ nextEntryId = 1
    /\ nextArticleId = 1
    /\ now = 0
    /\ last = Call("init", "", 0, <<>>, <<>>, FALSE, FALSE)

\* every operation of the layer on one session, at one clock reading
Next ==
    \/ \E u \in UserIds, o \in Outcomes : create_user(u, o)
    \/ \E u \in UserIds, ok \in BOOLEAN : delete_user(u, ok)
    \/ \E id \in EntryIds, u \in UserIds : GetJournalEntry(id, u)
    \/ \E u \in UserIds, o \in Outcomes : create_journal_entry(Some("calm"), u, o)
    \/ \E id \in EntryIds, u \in UserIds, r \in AIResults, o \in Outcomes :
          update_journal_entry_with_ai(id, u, r, o)
    \/ \E id \in EntryIds, u \in UserIds, ok \in BOOLEAN : delete_journal_entry(id, u, ok)
    \/ \E u \in UserIds : create_article(u)
    \/ \E id \in ArticleIds, u \in UserIds : GetArticle(id, u)
    \/ \E id \in ArticleIds, u \in UserIds, ok \in BOOLEAN : delete_article(id, u, ok)
    \/ \E b \in Batches, o \in BulkOutcomes : create_articles_bulk(b, o)
    \/ \E ok \in BOOLEAN : caller_commit(ok)
    \/ caller_rollback

Spec == Init /\ [][Next]_vars

\* users and journal entries coming and going, with the clock running
NextEntries ==
    \/ \E u \in UserIds, o \in Outcomes : create_user(u, o)
    \/ \E u \in UserIds, ok \in BOOLEAN : delete_user(u, ok)
    \/ \E m \in Moods, u \in UserIds, o \in Outcomes : create_journal_entry(m, u, o)
    \/ \E id \in EntryIds, u \in UserIds, ok \in BOOLEAN : delete_journal_entry(id, u, ok)
    \/ Tick

SpecEntries == Init /\ [][NextEntries]_vars

\* journal entries written and analysed, with the clock running
NextAI ==
    \/ \E u \in UserIds, o \in Outcomes : create_user(u, o)
    \/ \E u \in UserIds, o \in Outcomes : create_journal_entry(Some("calm"), u, o)
    \/ \E id \in EntryIds, u \in UserIds, r \in AIResults, o \in Outcomes :
          update_journal_entry_with_ai(id, u, r, o)
    \/ Tick

SpecAI == Init /\ [][NextAI]_vars

\* users, articles and the session, with the clock running
NextArticles ==
    \/ \E u \in UserIds, o \in Outcomes : create_user(u, o)
    \/ \E u \in UserIds, ok \in BOOLEAN : delete_user(u, ok)
    \/ \E u \in UserIds : create_article(u)
    \/ \E id \in ArticleIds, u \in UserIds : GetArticle(id, u)
    \/ \E id \in ArticleIds, u \in UserIds, ok \in BOOLEAN : delete_article(id, u, ok)
    \/ \E b \in Batches, o \in BulkOutcomes : create_articles_bulk(b, o)
    \/ \E ok \in BOOLEAN : caller_commit(ok)
    \/ caller_rollback
    \/ Tick

SpecArticles == Init /\ [][NextArticles]_vars

(***************************************************************************)
(* The queries over a database that already holds journal entries          *)
(***************************************************************************)
Entry(id, k) ==
    [id |-> id, user_id |-> k.user_id, created_at |-> k.created_at, mood |-> k.mood,
     sentiment_score |-> None, sentiment_label |-> None, key_themes |-> k.key_themes,
     suggested_strategies |-> None, ai_analysis_completed_at |-> None]

\* the tables of at most QEntries rows drawn from `kinds`
Tables(kinds) ==
    {[i \in 1..Len(f) |-> Entry(i, f[i])] :
        f \in UNION {[1..n -> kinds] : n \in 0..QEntries}}

InitQuery(kinds) ==
    /\ users = UserIds
    /\ entries \in Tables(kinds)
    /\ articles = <<>>
    /\ pending = <<>>
    /\ nextEntryId = Len(entries) + 1
    /\ nextArticleId = 1
    /\ now = QTime
    /\ last = Call("init", "", 0, <<>>, <<>>, FALSE, FALSE)

\* user A's entries at every time, with and without mood; user B's entries
\* are there to be left out
MoodKinds ==
    [user_id : {"A"}, created_at : 0..QTime, mood : Moods, key_themes : {NullThemes}]
    \cup [user_id : {"B"}, created_at : {QTime}, mood : {Some("low")},
          key_themes : {NullThemes}]

SpecMood ==
    /\ InitQuery(MoodKinds)
    /\ [][\E u \in UserIds, d \in 0..MaxDays : GetMoodHistory(u, d)]_vars

PageKinds ==
    [user_id : {"A"}, created_at : 0..QTime, mood : {None}, key_themes : {NullThemes}]
    \cup [user_id : {"B"}, created_at : {QTime}, mood : {None}, key_themes : {NullThemes}]

SpecPage ==
    /\ InitQuery(PageKinds)
    /\ [][\E u \in UserIds, skip \in 0..MaxSkip, limit \in 0..MaxLimit :
              GetUserJournalEntries(u, skip, limit)]_vars

\* TopN + 1 themes of their own, then "a" and "b"
WideList ==
    [i \in 1..(TopN + 3) |->
        IF i <= TopN + 1 THEN ToString(i) ELSE IF i = TopN + 2 THEN "a" ELSE "b"]

ThemeLists == {<<"a", "b">>, <<"a">>, WideList}

MalformedText == <<"[", "a", ",">>

ThemeValues ==
    {NullThemes, ListThemes(<<"a", "b">>), ListThemes(<<"a">>), ListThemes(WideList),
     StrThemes(json_dumps(<<"a", "b">>)), StrThemes(MalformedText), StrThemes(<<"a">>)}

\* user A's entries carry every value at the current time and one list a
\* step earlier; user B's entries are there to be left out
ThemeKinds ==
    [user_id : {"A"}, created_at : {QTime}, mood : {None}, key_themes : ThemeValues]
    \cup [user_id : {"A"}, created_at : {QTime - 1}, mood : {None},
          key_themes : {ListThemes(<<"a", "b">>)}]
    \cup [user_id : {"B"}, created_at : {QTime}, mood : {None},
          key_themes : {ListThemes(<<"a", "b">>)}]

SpecTheme ==
    /\ InitQuery(ThemeKinds)
    /\ [][\E u \in UserIds, d \in 0..MaxDays : GetThemeFrequency(u, d)]_vars

(***************************************************************************)
(* Properties                                                              *)
(***************************************************************************)
OnlyRowsOf(t, user_id) == [id \in {i \in DOMAIN t : t[i].user_id = user_id} |-> t[id]]

NotOwned(t, id, user_id) == id \notin DOMAIN t \/ t[id].user_id # user_id

ScopedWrites == {"update_journal_entry_with_ai", "delete_journal_entry", "delete_article"}

\* what every scoped read gives user a is what it gives over a's rows alone
ReadsIsolated ==
    \A a \in UserIds :
        LET es == OnlyRowsOf(entries, a)
            arts == OnlyRowsOf(articles, a) IN
        /\ \A id \in EntryIds :
              /\ get_journal_entry(entries, id, a) = get_journal_entry(es, id, a)
              /\ \A r \in Range(get_journal_entry(entries, id, a)) : r.user_id = a
        /\ \A id \in ArticleIds :
              /\ get_article(articles, id, a) = get_article(arts, id, a)
              /\ \A r \in Range(get_article(articles, id, a)) : r.user_id = a
        /\ \A skip \in 0..MaxSkip, limit \in 0..MaxLimit :
              /\ get_user_journal_entries(entries, a, skip, limit)
                    = get_user_journal_entries(es, a, skip, limit)
              /\ get_user_articles(articles, a, skip, limit)
                    = get_user_articles(arts, a, skip, limit)
              /\ \A res \in get_user_journal_entries(entries, a, skip, limit)
                               \cup get_user_articles(articles, a, skip, limit) :
                    \A r \in Range(res) : r.user_id = a
        /\ \A days \in 0..MaxDays :
              /\ get_mood_history(entries, a, days, now) = get_mood_history(es, a, days, now)
              /\ get_theme_frequency(entries, a, days, now)
                    = get_theme_frequency(es, a, days, now)

\* a scoped write made with a's id leaves every row of another user as it
\* was and returns only rows of a
WritesIsolated ==
    last'.op \in ScopedWrites =>
        /\ \A id \in DOMAIN entries :
              entries[id].user_id # last'.user_id =>
                  id \in DOMAIN entries' /\ entries'[id] = entries[id]
        /\ \A id \in DOMAIN articles :
              articles[id].user_id # last'.user_id =>
                  id \in DOMAIN articles' /\ articles'[id] = articles[id]
        /\ \A r \in Range(last'.ret) : r.user_id = last'.user_id

\* C1: no ownership-scoped operation called with user A's id returns,
\* modifies or deletes a journal entry or an article owned by another user,
\* even when it is given the id of that user's row.
C1_CrossUserIsolation == []ReadsIsolated /\ [][WritesIsolated]_vars

\* A's delete_journal_entry was given the id of an entry B owns, and
\* returned absent with the entry still there
C1_Witness ==
    /\ last.op = "delete_journal_entry"
    /\ last.id \in DOMAIN entries
    /\ entries[last.id].user_id # last.user_id
    /\ last.user_id \in users
    /\ last.ret = None

BulkStep ==
    (last'.op = "create_articles_bulk" /\ last'.args[1] > 0) =>
        LET n == last'.args[1]
            added == DOMAIN articles' \ DOMAIN articles IN
        \/ /\ ~last'.raised
           /\ Len(last'.ret) = n
           /\ \A i \in 1..n : /\ last'.ret[i].id \in added
                              /\ articles'[last'.ret[i].id] = last'.ret[i]
                              /\ last'.ret[i].generated_at = last'.ret[1].generated_at
           /\ \A i, j \in 1..n : i # j => last'.ret[i].id # last'.ret[j].id
           /\ \A id \in DOMAIN articles : id \in DOMAIN articles' /\ articles'[id] = articles[id]
        \/ /\ last'.raised
           /\ articles' = articles

\* C2: create_articles_bulk on a non-empty list either returns normally with
\* all N rows persisted under one generated_at, or it raises and none of the
\* rows is persisted.
C2_BulkAllOrNothing == [][BulkStep]_vars

DeleteUserStep ==
    last'.op = "delete_user" =>
        LET u == last'.user_id IN
        IF u \in users
        THEN \/ /\ ~last'.raised
                /\ last'.ret = Some([id |-> u])
                /\ users' = users \ {u}
                /\ DOMAIN entries' = {id \in DOMAIN entries : entries[id].user_id # u}
                /\ \A id \in DOMAIN entries' : entries'[id] = entries[id]
             \/ /\ last'.raised
                /\ users' = users /\ entries' = entries
        ELSE /\ last'.ret = None /\ ~last'.raised
             /\ UNCHANGED <<users, entries, articles, pending>>

\* C3: delete_user on an existing user removes, in one step, the user row and
\* exactly the journal entries that user owns, leaving every other user's
\* entries as they were; on an absent id it returns absent and changes nothing.
C3_DeleteUserCascade == [][DeleteUserStep]_vars

\* a user was deleted, an entry went with it, and an entry of the other
\* user is still there
C3_Witness ==
    /\ last.op = "delete_user"
    /\ last.ret # None
    /\ nextEntryId > MaxEntries
    /\ entries # <<>>
    /\ Cardinality(DOMAIN entries) < MaxEntries

NoAI(e) ==
    /\ e.sentiment_score = None /\ e.sentiment_label = None
    /\ e.key_themes = NullThemes /\ e.suggested_strategies = None
    /\ e.ai_analysis_completed_at = None

HasAI(e, r) ==
    /\ e.sentiment_score = Some(r.sentiment_score)
    /\ e.sentiment_label = Some(r.sentiment_label)
    /\ e.key_themes = ListThemes(r.key_themes)
    /\ e.suggested_strategies = Some(r.suggested_strategies)
    /\ e.ai_analysis_completed_at # None

\* the AI fields of a committed entry are all absent or all of one result
AIFieldsTogether ==
    \A id \in DOMAIN entries :
        NoAI(entries[id]) \/ \E r \in AIResults : HasAI(entries[id], r)

UpdateStep ==
    last'.op = "update_journal_entry_with_ai" =>
        LET id == last'.id
            u == last'.user_id IN
        IF NotOwned(entries, id, u)
        THEN /\ last'.ret = None /\ ~last'.raised
             /\ UNCHANGED <<users, entries, articles, pending>>
        ELSE IF last'.committed
        THEN /\ DOMAIN entries' = DOMAIN entries
             /\ \A i \in DOMAIN entries \ {id} : entries'[i] = entries[i]
             /\ \E r \in AIResults : HasAI(entries'[id], r)
             /\ entries'[id].ai_analysis_completed_at = Some(now)
             /\ entries'[id].user_id = u
             /\ entries'[id].created_at = entries[id].created_at
             /\ entries'[id].mood = entries[id].mood
             /\ ~last'.raised => last'.ret = Some(entries'[id])
        ELSE entries' = entries /\ last'.raised

\* C4: update_journal_entry_with_ai on an id that does not exist or that
\* another user owns returns absent and changes no journal entry; on an owned
\* entry the four AI fields and the completion timestamp are set together in
\* one commit, so no committed entry has only some of them.
C4_UpdateWithAI == []AIFieldsTogether /\ [][UpdateStep]_vars

\* an analysed entry was analysed again, at a later time, with another result
C4_Witness ==
    /\ last.op = "update_journal_entry_with_ai"
    /\ last.ret # None
    /\ last.ret[1].ai_analysis_completed_at = Some(MaxTime)
    /\ last.ret[1].created_at < MaxTime

AbsentOps ==
    {"get_journal_entry", "update_journal_entry_with_ai", "delete_journal_entry",
     "get_article", "delete_article"}

NotFoundStep ==
    last'.op \in AbsentOps =>
        LET t == IF last'.op \in {"get_article", "delete_article"} THEN articles ELSE entries IN
        NotOwned(t, last'.id, last'.user_id) =>
            /\ last'.ret = None
            /\ ~last'.raised
            /\ UNCHANGED <<users, entries, articles, pending>>

\* a lookup of a row of another user gives what it gives with that row gone
SameAsMissing ==
    \A a \in UserIds :
        /\ \A x \in DOMAIN entries :
              entries[x].user_id # a =>
                  get_journal_entry(entries, x, a)
                      = get_journal_entry([i \in DOMAIN entries \ {x} |-> entries[i]], x, a)
        /\ \A x \in DOMAIN articles :
              articles[x].user_id # a =>
                  get_article(articles, x, a)
                      = get_article([i \in DOMAIN articles \ {x} |-> articles[i]], x, a)

\* C5: for get_journal_entry, update_journal_entry_with_ai,
\* delete_journal_entry, get_article and delete_article, an id that does not
\* exist and an id of a row another user owns give the same outcome: absent,
\* no error, no change of the store.
C5_NotFoundIsNotOwned == []SameAsMissing /\ [][NotFoundStep]_vars

\* get_article was given the id of an article another user owns
C5_Witness ==
    /\ last.op = "get_article"
    /\ last.id \in DOMAIN articles
    /\ articles[last.id].user_id # last.user_id
    /\ last.ret = None

StagingStep ==
    /\ last'.op = "create_article" =>
          /\ articles' = articles
          /\ ~last'.committed
          /\ pending' = Append(pending, last'.ret[1])
    /\ last'.op = "rollback" => (articles' = articles /\ pending' = <<>>)
    /\ (DOMAIN articles' \ DOMAIN articles # {}) => last'.committed
    /\ (last'.op = "commit" /\ last'.committed) =>
          /\ pending' = <<>>
          /\ Cardinality(DOMAIN articles' \ DOMAIN articles) = Len(pending)
          /\ \A i \in 1..Len(pending) :
                articles'[nextArticleId + i - 1].user_id = pending[i].user_id
          /\ \A id \in DOMAIN articles : id \in DOMAIN articles' /\ articles'[id] = articles[id]

\* C6: create_article only stages its article: the committed articles are the
\* same after the call, the article becomes a committed row only in a later
\* step that commits on the session, and a rollback before that loses it.
C6_CreateArticleStages == [][StagingStep]_vars

\* the caller's commit made a staged article a committed row
C6_Witness ==
    /\ last.op = "commit"
    /\ last.committed
    /\ articles # <<>>

CommittingOps ==
    {"create_user", "create_journal_entry", "update_journal_entry_with_ai",
     "delete_user", "delete_journal_entry", "delete_article"}

SharedSessionStep ==
    (pending # <<>> /\ last'.op \in CommittingOps \cup {"create_articles_bulk"}) =>
        LET bulk == last'.op = "create_articles_bulk" IN
        \* a failing create_articles_bulk discards the staged articles
        /\ (bulk /\ last'.raised) => (pending' = <<>> /\ articles' = articles)
        \* a call that committed makes them committed rows
        /\ ((bulk /\ ~last'.raised /\ last'.args[1] > 0) \/ (~bulk /\ last'.committed)) =>
              /\ pending' = <<>>
              /\ \A i \in 1..Len(pending) :
                    /\ nextArticleId + i - 1 \in DOMAIN articles'
                    /\ articles'[nextArticleId + i - 1].user_id = pending[i].user_id
        \* a not-found branch and an empty list leave them staged
        /\ ((bulk /\ last'.args[1] = 0) \/ (~bulk /\ ~last'.committed /\ ~last'.raised)) =>
              (pending' = pending /\ articles' = articles)

\* C10: with articles staged on the session, the next call of the layer that
\* commits makes them all committed rows together with its own change, a
\* failing create_articles_bulk discards them all, and a not-found branch or
\* create_articles_bulk([]) leaves them staged.
C10_SharedSession == [][SharedSessionStep]_vars

\* the entries get_theme_frequency / get_mood_history look at
InWindow(user_id, days) ==
    {e \in rows(entries) : e.user_id = user_id /\ e.created_at >= now - days}

\* the list of themes a stored key_themes value stands for
ThemesOf(v) ==
    IF v.kind = "list" THEN v.val
    ELSE IF v.kind = "str" /\ \E l \in ThemeLists : json_dumps(l) = v.val
    THEN CHOOSE l \in ThemeLists : json_dumps(l) = v.val
    ELSE <<>>

\* the theme lists of the entries in the window, by entry id
WindowLists(user_id, days) ==
    [id \in {e.id : e \in InWindow(user_id, days)} |-> ThemesOf(entries[id].key_themes)]
        @@ <<>>

\* the places of `theme` in the lists
Occurrences(theme, lists) ==
    Cardinality(UNION {{<<id, i>> : i \in {j \in 1..Len(lists[id]) : lists[id][j] = theme}} :
                          id \in DOMAIN lists})

\* every theme of the stored lists, once
AllThemes == WideList

\* C7: get_theme_frequency returns, for the user's entries in the window,
\* each theme with the number of its occurrences over the entries' theme
\* lists, a JSON-encoded list counting as the native list and a malformed
\* text counting nothing; the counts are non-increasing, at most TopN pairs
\* are returned, and no theme left out has a higher count than one returned.
C7_ThemeFrequency ==
    last.op = "get_theme_frequency" =>
        LET u == last.user_id
            d == last.args[1]
            ret == last.ret
            lists == WindowLists(u, d)
            occ == [k \in 1..Len(AllThemes) |-> Occurrences(AllThemes[k], lists)] \o <<>>
            seen == {k \in 1..Len(AllThemes) : occ[k] > 0}
            at == [i \in 1..Len(ret) |->
                      IF \E k \in 1..Len(AllThemes) : AllThemes[k] = ret[i].theme
                      THEN CHOOSE k \in 1..Len(AllThemes) : AllThemes[k] = ret[i].theme
                      ELSE 0] \o <<>> IN
        /\ ~last.raised
        /\ Len(ret) = Min(TopN, Cardinality(seen))
        /\ \A i \in 1..Len(ret) : at[i] \in seen /\ ret[i].count = occ[at[i]]
        /\ \A i, j \in 1..Len(ret) :
              /\ i # j => at[i] # at[j]
              /\ i < j => ret[i].count >= ret[j].count
        /\ \A k \in seen \ Range(at) : \A i \in 1..Len(ret) : ret[i].count >= occ[k]

\* more than TopN themes in the window, one list stored as JSON text and one
\* malformed text: TopN pairs came back, "a" (counted twice) first
C7_Witness ==
    /\ last.op = "get_theme_frequency"
    /\ Len(last.ret) = TopN
    /\ last.ret[1].count = 2
    /\ \E e \in InWindow(last.user_id, last.args[1]) :
          e.key_themes = StrThemes(MalformedText)
    /\ \E e \in InWindow(last.user_id, last.args[1]) :
          e.key_themes = StrThemes(json_dumps(<<"a", "b">>))

\* the entries whose point get_mood_history owes
WithMood(user_id, days) == {e \in InWindow(user_id, days) : e.mood # None}

\* C8: get_mood_history returns exactly one (created_at, mood) point for each
\* entry of the user with created_at >= now - days and a mood, no other
\* point, in ascending created_at order.
C8_MoodHistory ==
    last.op = "get_mood_history" =>
        LET u == last.user_id
            d == last.args[1]
            ret == last.ret IN
        /\ Len(ret) = Cardinality(WithMood(u, d))
        /\ \A e \in WithMood(u, d) :
              Cardinality({i \in 1..Len(ret) : ret[i] = [date |-> e.created_at, mood |-> e.mood[1]]})
                  = Cardinality({x \in WithMood(u, d) :
                                    x.created_at = e.created_at /\ x.mood = e.mood})
        /\ \A i, j \in 1..Len(ret) : i < j => ret[i].date <= ret[j].date

\* a point on the lower bound of the window was returned, while an older
\* entry and an entry without mood of the same user were left out
C8_Witness ==
    /\ last.op = "get_mood_history"
    /\ \E i \in 1..Len(last.ret) : last.ret[i].date = now - last.args[1]
    /\ \E e \in rows(entries) :
          e.user_id = last.user_id /\ e.mood # None /\ e.created_at < now - last.args[1]
    /\ \E e \in InWindow(last.user_id, last.args[1]) : e.mood = None

Owned(user_id) == {e \in rows(entries) : e.user_id = user_id}

\* s lists the entries of the user, newest first
NewestFirst(s, user_id) ==
    /\ Len(s) = Cardinality(Owned(user_id))
    /\ Range(s) = Owned(user_id)
    /\ \A i, j \in 1..Len(s) : i < j => s[i].created_at >= s[j].created_at

DistinctTimes(user_id) ==
    \A e, f \in Owned(user_id) : e # f => e.created_at # f.created_at

RECURSIVE Pages(_, _, _)
\* the pages k, k+1, ... of size limit, one after the other
Pages(user_id, limit, k) ==
    IF k * limit >= Cardinality(Owned(user_id)) THEN <<>>
    ELSE (CHOOSE r \in get_user_journal_entries(entries, user_id, k * limit, limit) : TRUE)
             \o Pages(user_id, limit, k + 1)

\* C9: get_user_journal_entries returns the elements skip+1 .. skip+limit of
\* the user's entries sorted by created_at descending (fewer at the end,
\* none past it); with distinct created_at the consecutive pages are disjoint
\* and cover every owned entry once.
C9_OffsetLimitWindow ==
    /\ last.op = "get_user_journal_entries" =>
          LET u == last.user_id
              skip == last.args[1]
              limit == last.args[2]
              ret == last.ret IN
          \E s \in [1..Cardinality(Owned(u)) -> Owned(u)] :
              /\ NewestFirst(s, u)
              /\ Len(ret) = Max(0, Min(limit, Len(s) - skip))
              /\ \A i \in 1..Len(ret) : ret[i] = s[skip + i]
    /\ \A u \in UserIds :
          DistinctTimes(u) =>
              \A limit \in 1..MaxLimit :
                  /\ \A k \in 0..QEntries :
                        Cardinality(get_user_journal_entries(entries, u, k * limit, limit)) = 1
                  /\ NewestFirst(Pages(u, limit, 0), u)

\* the second page of size one of a user with three entries of distinct times
C9_Witness ==
    /\ last.op = "get_user_journal_entries"
    /\ last.args = <<1, 1>>
    /\ Len(last.ret) = 1
    /\ Cardinality(Owned(last.user_id)) = 3
    /\ DistinctTimes(last.user_id)

====
